---- MODULE Spec2Model ----
(***************************************************************************)
(* RSVP check-in: the QR generator (handleSubmit), the check-in scanner    *)
(* (QRScanner: start, decode callback, handleCheckIn, stop, teardown) and  *)
(* the shared document store "rsvps" they both use.                        *)
(*                                                                         *)
(* One step of the model is one task of the JavaScript event loop: code    *)
(* runs to completion up to its next await, and the continuation after an  *)
(* await is a later step.                                                  *)
(*                                                                         *)
(* Status texts are written in ASCII: "OK " stands for the check mark,     *)
(* "X " for the cross and "..." for the ellipsis of the source.            *)
(***************************************************************************)
EXTENDS Integers, Sequences, FiniteSets, Bags, TLC

\* ------------------------------------------------------------------ bounds
\* The clock (Date.now(), new Date()) runs from 0 to MaxTime.
MaxTime == 1
\* handleCheckIn calls of one scanner that may be unfinished at once (awaiting
\* the store, or with their status reset still scheduled).
MaxInFlight == 2
\* Camera sessions of one scanner that may be pending or active at once.
MaxStarts == 2
\* The cooldownMs prop the scanners of Spec are constructed with.
SmallCooldown == 1
\* The default of the cooldownMs prop.
DefaultCooldownMs == 200

Scanners == {"s1", "s2"}
\* What makeToken may return.
Tokens == {"tokA", "tokB"}
NoTime == -1

\* ------------------------------------------------------- JSON text and values
\* A text is a sequence of lexemes. A string lexeme holds the string it spells.
\* A number lexeme holds the sign, the digits without the point and the power
\* of ten that places the point: 7 is Num(FALSE, 7, 0), 1.0 is
\* Num(FALSE, 10, -1), 0.0 is Num(FALSE, 0, -1), 0e0 is Num(FALSE, 0, 0), -0 is
\* Num(TRUE, 0, 0), 1e2 is Num(FALSE, 1, 2) and 1e-400 is Num(FALSE, 1, -400).
\* The digits are at most MaxMant.
Str(v) == [k |-> "str", v |-> v]
Num(neg, mant, exp) == [k |-> "num", neg |-> neg, mant |-> mant, exp |-> exp]
Lit(v) == [k |-> "lit", v |-> v]
P(v) == [k |-> "punct", v |-> v]
Word(v) == [k |-> "word", v |-> v]
Undefined == [k |-> "undefined", v |-> ""]
Bool(b) == Lit(IF b THEN "true" ELSE "false")

\* A value is a string, true, false or null (the lexeme that spells it), a
\* number (the lexeme JSON.stringify prints for it), Infinity or -Infinity, an
\* object (its members in the order of its own keys) or an array.
Obj(ms) == [k |-> "object", ms |-> ms]
Arr(items) == [k |-> "array", items |-> items]
Infinity(neg) == [k |-> "infinity", neg |-> neg]

IsScalar(x) == x.k \in {"str", "num", "lit"}

\* The largest digits of a number lexeme.
MaxMant == 2147483647

RECURSIVE Pow10(_)
Pow10(n) == IF n = 0 THEN 1 ELSE 10 * Pow10(n - 1)

\* How many digits a positive integer has.
RECURSIVE DigitCount(_)
DigitCount(n) == IF n < 10 THEN 1 ELSE 1 + DigitCount(n \div 10)

\* mant * 10^exp, for mant > 0, without the zeros mant ends with.
RECURSIVE Shorten(_, _)
Shorten(mant, exp) ==
  IF mant % 10 = 0 THEN Shorten(mant \div 10, exp + 1) ELSE [mant |-> mant, exp |-> exp]

\* A number is a double. From 2^1024 - 2^970 = 1.797693134862315807...e308 on
\* a decimal rounds to Infinity: these are the first ten digits.
InfinityDigits == 1797693134
\* Up to 2^-1075 = 2.47032822920623272088...e-324, half the smallest double, a
\* decimal rounds to 0: these are the first nine digits.
HalfStepDigits == 247032822
\* 2^-1075 in units of 10^-352, in limbs (see Limbs).
HalfStep == << 9643, 2843, 2088, 2327, 9206, 2822, 4703, 2 >>

\* Whole numbers beyond MaxMant are sequences of limbs, the lowest first.
LimbBase == 10000

RECURSIVE Limbs(_)
Limbs(n) == IF n = 0 THEN << >> ELSE << n % LimbBase >> \o Limbs(n \div LimbBase)

Limb(x, i) == IF i >= 1 /\ i <= Len(x) THEN x[i] ELSE 0

\* The limbs of the number whose places hold cols, c carried in.
RECURSIVE Carry(_, _)
Carry(cols, c) ==
  IF cols = << >> THEN Limbs(c)
  ELSE << (Head(cols) + c) % LimbBase >> \o Carry(Tail(cols), (Head(cols) + c) \div LimbBase)

Plus(x, y) ==
  Carry([i \in 1..(IF Len(x) > Len(y) THEN Len(x) ELSE Len(y)) |-> Limb(x, i) + Limb(y, i)], 0)

RECURSIVE Column(_, _, _, _)
Column(x, y, i, p) ==
  IF p > Len(x) THEN 0 ELSE x[p] * Limb(y, i - p + 1) + Column(x, y, i, p + 1)

\* x * y, for an x of at most three limbs.
Times(x, y) == Carry([i \in 1..(Len(x) + Len(y)) |-> Column(x, y, i, 1)], 0)

RECURSIVE LessFrom(_, _, _)
LessFrom(x, y, i) ==
  IF i = 0 THEN FALSE
  ELSE IF Limb(x, i) # Limb(y, i) THEN Limb(x, i) < Limb(y, i)
  ELSE LessFrom(x, y, i - 1)

Less(x, y) == LessFrom(x, y, IF Len(x) > Len(y) THEN Len(x) ELSE Len(y))

\* Whether x * 10^-324 is below q * 10^j half steps (q * 10^j * 2^-1075).
BelowHalfSteps(x, q, j) ==
  Less(<< 0, 0, 0, 0, 0, 0, 0 >> \o x, Times(Limbs(Pow10(j)), Times(Limbs(q), HalfStep)))

\* The least k of lo..hi with mant * 10^-324 below 2k + 1 times 10^j half steps.
RECURSIVE StepsOf(_, _, _, _)
StepsOf(mant, j, lo, hi) ==
  IF lo = hi THEN lo
  ELSE IF BelowHalfSteps(Limbs(mant), 2 * ((lo + hi) \div 2) + 1, j)
  THEN StepsOf(mant, j, lo, (lo + hi) \div 2)
  ELSE StepsOf(mant, j, (lo + hi) \div 2 + 1, hi)

\* Where n * 10^-324 lies for the double of k steps of 2^-1074: 3 is below the
\* decimals that round to it, 2 is among them and below it, 1 is among them
\* and not below it, 0 is above them.
Place(n, k) ==
  Cardinality({ q \in {2 * k - 1, 2 * k, 2 * k + 1} : BelowHalfSteps(Limbs(n), q, 0) })

\* The whole numbers around base, each with its place.
Around(base, k) ==
  [n \in { base + o : o \in { o \in -5..5 : o <= MaxMant - base /\ base + o >= 1 } } |->
     Place(n, k)]

\* How many digits n has without the zeros it ends with.
Sig(n) == DigitCount(Shorten(n, 0).mant)

Fewest(ns) == { n \in ns : \A o \in ns : Sig(n) <= Sig(o) }
Greatest(ns) == CHOOSE n \in ns : \A o \in ns : o <= n
Least(ns) == CHOOSE n \in ns : \A o \in ns : n <= o

\* Of a below and b above the double of k steps, the nearer one.
Closer(a, b, k) == IF BelowHalfSteps(Plus(Limbs(a), Limbs(b)), 4 * k, 0) THEN b ELSE a

Nearer(below, above, k) ==
  IF below = {} THEN Least(above)
  ELSE IF above = {} THEN Greatest(below)
  ELSE Closer(Greatest(below), Least(above), k)

Split(short, place, k) ==
  Nearer({ n \in short : place[n] = 2 }, { n \in short : place[n] = 1 }, k)

\* The digits Number.prototype.toString prints for the double of k steps: of
\* the decimals that read back as this double those of the fewest digits and,
\* of these, the nearest to it.
Printed(place, k) == Split(Fewest({ n \in DOMAIN place : place[n] \in {1, 2} }), place, k)

\* The double nearest to mant * 10^exp, for an exp of at most -324 and a decimal
\* above half the smallest double: k steps of 2^-1074, as it is printed.
Steps(base, k) == Shorten(Printed(Around(base, k), k), -324)
Subnormal(mant, exp) ==
  Steps(mant \div Pow10(-324 - exp), StepsOf(mant, -324 - exp, 1, mant \div 4 + 1))

Signed(neg, s) == Num(neg, s.mant, s.exp)

\* A decimal s.mant * 10^s.exp of d digits, rounded to a double.
Rounded(neg, s, d) ==
  IF d + s.exp > 309 \/ (d + s.exp = 309 /\ s.mant > InfinityDigits \div Pow10(10 - d))
  THEN Infinity(neg)
  ELSE IF d + s.exp < -323
          \/ (d + s.exp = -323 /\ (d = 10 \/ s.mant <= HalfStepDigits \div Pow10(9 - d)))
  THEN Num(FALSE, 0, 0)
  ELSE IF s.exp <= -324
  THEN Signed(neg, Subnormal(s.mant, s.exp))
  ELSE IF s.exp > 0 /\ s.exp <= 9 /\ s.mant <= MaxMant \div Pow10(s.exp)
  THEN Num(neg, s.mant * Pow10(s.exp), 0)
  ELSE Num(neg, s.mant, s.exp)

Sized(neg, s) == Rounded(neg, s, DigitCount(s.mant))

\* The number a number lexeme spells, as JSON.parse reads it and JSON.stringify
\* prints it: 1.0 and 1e0 are 1, 1e2 is 100, 1.50 is 1.5; 0.0, 0e0 and -0 are 0
\* (the program tests a number for truth and prints it, and -0 is falsy and
\* prints as 0 as 0 does); 1e-400 is 0, 1e400 is Infinity and 3e-324 is
\* 5e-324. A whole number beyond MaxMant keeps its power of ten.
Number(x) ==
  IF x.mant = 0 THEN Num(FALSE, 0, 0) ELSE Sized(x.neg, Shorten(x.mant, x.exp))

\* The keys that spell an array index, up to MaxIndexKey: "0", "1", "2", ...
\* (and not "01" or "+1"); an object lists them first, in ascending order.
MaxIndexKey == 9
IndexKeys == { ToString(n) : n \in 0..MaxIndexKey }
IndexOf(key) == CHOOSE n \in 0..MaxIndexKey : ToString(n) = key

HasKey(ms, key) == \E i \in 1..Len(ms) : ms[i].key = key

\* obj[key] = val: an existing key keeps its place; a new index key goes after
\* the index keys below it, any other new key to the end.
SetMember(ms, key, val) ==
  IF HasKey(ms, key)
  THEN [i \in 1..Len(ms) |-> IF ms[i].key = key THEN [key |-> key, val |-> val] ELSE ms[i]]
  ELSE IF key \in IndexKeys
  THEN LET below == Cardinality({ i \in 1..Len(ms) :
                                    ms[i].key \in IndexKeys /\ IndexOf(ms[i].key) < IndexOf(key) })
       IN SubSeq(ms, 1, below) \o << [key |-> key, val |-> val] >>
            \o SubSeq(ms, below + 1, Len(ms))
  ELSE Append(ms, [key |-> key, val |-> val])

\* The result of parsing a value that starts at a lexeme of a text: the value
\* and the place after it, or a failure.
NoParse == [ok |-> FALSE, val |-> Undefined, next |-> 0]
Parsed(val, next) == [ok |-> TRUE, val |-> val, next |-> next]

RECURSIVE ParseValue(_, _), ParseMembers(_, _, _), ParseItems(_, _, _)

\* The value that starts at text[i].
ParseValue(text, i) ==
  IF i > Len(text) THEN NoParse
  ELSE IF text[i].k = "num" THEN Parsed(Number(text[i]), i + 1)
  ELSE IF IsScalar(text[i]) THEN Parsed(text[i], i + 1)
  ELSE IF text[i] = P("{")
  THEN IF i < Len(text) /\ text[i + 1] = P("}")
       THEN Parsed(Obj(<< >>), i + 2)
       ELSE ParseMembers(text, i + 1, << >>)
  ELSE IF text[i] = P("[")
  THEN IF i < Len(text) /\ text[i + 1] = P("]")
       THEN Parsed(Arr(<< >>), i + 2)
       ELSE ParseItems(text, i + 1, << >>)
  ELSE NoParse

\* key : value (, key : value)* } from text[i] on; ms are the members so far.
\* A later duplicate key overrides an earlier one.
ParseMembers(text, i, ms) ==
  IF i + 2 > Len(text) \/ text[i].k # "str" \/ text[i + 1] # P(":") THEN NoParse
  ELSE LET r == ParseValue(text, i + 2) IN
       IF ~r.ok \/ r.next > Len(text) THEN NoParse
       ELSE IF text[r.next] = P("}")
       THEN Parsed(Obj(SetMember(ms, text[i].v, r.val)), r.next + 1)
       ELSE IF text[r.next] = P(",")
       THEN ParseMembers(text, r.next + 1, SetMember(ms, text[i].v, r.val))
       ELSE NoParse

\* value (, value)* ] from text[i] on; items are the items so far.
ParseItems(text, i, items) ==
  LET r == ParseValue(text, i) IN
  IF ~r.ok \/ r.next > Len(text) THEN NoParse
  ELSE IF text[r.next] = P("]")
  THEN Parsed(Arr(Append(items, r.val)), r.next + 1)
  ELSE IF text[r.next] = P(",")
  THEN ParseItems(text, r.next + 1, Append(items, r.val))
  ELSE NoParse

\* JSON.parse: kind is "error" (it threw), "null", "scalar", "array" or
\* "object"; val is the value and ms are the members of an object.
JSONParse(text) ==
  LET r == ParseValue(text, 1) IN
  IF ~r.ok \/ r.next # Len(text) + 1
  THEN [kind |-> "error", ms |-> << >>, val |-> Undefined]
  ELSE [kind |-> CASE r.val.k = "object" -> "object"
                   [] r.val.k = "array" -> "array"
                   [] r.val = Lit("null") -> "null"
                   [] OTHER -> "scalar",
        ms |-> IF r.val.k = "object" THEN r.val.ms ELSE << >>,
        val |-> r.val]

\* value.key for the keys the program reads (t, token, name, ...) of a parsed
\* value that is not null: undefined unless an object has the key.
Get(val, key) ==
  IF \E i \in 1..Len(val.ms) : val.ms[i].key = key
  THEN val.ms[CHOOSE i \in 1..Len(val.ms) : val.ms[i].key = key].val
  ELSE Undefined

\* JavaScript truthiness: objects and arrays are truthy.
Truthy(x) ==
  CASE x.k = "undefined" -> FALSE
    [] x.k = "lit" -> x.v = "true"
    [] x.k = "num" -> Number(x) # Num(FALSE, 0, 0)
    [] x.k = "str" -> x.v # ""
    [] OTHER -> TRUE

\* The text JSON.stringify prints for a number: null for Infinity.
NumberText(n) == IF n.k = "num" THEN << n >> ELSE << Lit("null") >>

RECURSIVE ValueText(_), MemberText(_), ItemText(_)

\* The text JSON.stringify prints for a value.
ValueText(x) ==
  CASE x.k = "object" -> << P("{") >> \o MemberText(x.ms) \o << P("}") >>
    [] x.k = "array" -> << P("[") >> \o ItemText(x.items) \o << P("]") >>
    [] x.k = "num" -> NumberText(Number(x))
    [] x.k = "infinity" -> << Lit("null") >>
    [] OTHER -> << x >>

MemberText(ms) ==
  IF ms = << >> THEN << >>
  ELSE << Str(Head(ms).key), P(":") >> \o ValueText(Head(ms).val)
       \o (IF Tail(ms) = << >> THEN << >> ELSE << P(",") >> \o MemberText(Tail(ms)))

ItemText(items) ==
  IF items = << >> THEN << >>
  ELSE ValueText(Head(items))
       \o (IF Tail(items) = << >> THEN << >> ELSE << P(",") >> \o ItemText(Tail(items)))

\* JSON.stringify of an object given by its members in the order of its keys.
JSONStringify(ms) == ValueText(Obj(ms))

\* ------------------------------------------------------------ records, texts
Ana == [name |-> "Ana", email |-> "a@x.com", phone |-> "+1 5551234567"]
Bob == [name |-> "Bob", email |-> "b@x.com", phone |-> "5550000000"]
Identities == {Ana, Bob}

\* A document of the collection "rsvps". checkedInAt = NoTime and checkedInBy = ""
\* stand for a document without these fields.
Record(token, who, coming, status, createdAt) ==
  [t |-> "rsvp", token |-> token, name |-> who.name, email |-> who.email,
   phone |-> who.phone, coming |-> coming, status |-> status,
   createdAt |-> createdAt, checkedInAt |-> NoTime, checkedInBy |-> ""]

\* PayloadMembers with the name and the email in each other's place.
PayloadMembersSwapped(token, name, email, phone, coming) ==
  << [key |-> "t", val |-> Str("rsvp")],
     [key |-> "token", val |-> token],
     [key |-> "name", val |-> Str(email)],
     [key |-> "email", val |-> Str(name)],
     [key |-> "phone", val |-> Str(phone)],
     [key |-> "coming", val |-> Bool(coming)] >>

\* The payload handleSubmit encodes into the QR code.
PayloadMembers(token, name, email, phone, coming) ==
  << [key |-> "t", val |-> Str("rsvp")],
     [key |-> "token", val |-> token],
     [key |-> "name", val |-> Str(name)],
     [key |-> "email", val |-> Str(email)],
     [key |-> "phone", val |-> Str(phone)],
     [key |-> "coming", val |-> Bool(coming)] >>

Payload(record) ==
  JSONStringify(PayloadMembers(Str(record.token), record.name, record.email,
                               record.phone, record.coming))

\* Ids a scanned code may carry: the tokens, and one no record ever has.
GhostToken == "ghost"

HelloWorld == << Word("hello"), Word("world") >>

\* The payload of Ana's fields for a token value, as handleSubmit writes it.
RsvpText(token) == JSONStringify(PayloadMembers(token, Ana.name, Ana.email, Ana.phone, TRUE))

\* {"t":"rsvp","token": ... } with the token spelled by the lexemes given.
TokenText(lexemes) ==
  << P("{"), Str("t"), P(":"), Str("rsvp"), P(","), Str("token"), P(":") >>
    \o lexemes \o << P("}") >>

\* {"t":"rsvp","token":1e400}: a token that is read as Infinity.
HugeTokenText == TokenText(<< Num(FALSE, 1, 400) >>)

\* {"t":"rsvp","token":"tokA","1":"x"}: a payload of tokA with an index key.
IndexKeyText ==
  << P("{"), Str("t"), P(":"), Str("rsvp"), P(","), Str("token"), P(":"), Str("tokA"),
     P(","), Str("1"), P(":"), Str("x"), P("}") >>

\* The texts a camera may decode: a payload as the generator writes it for a
\* token, the same for an id no record has, payloads whose token is no string
\* (the number 7, the number 0 spelled 0.0 or 1e-400, the object {"a":1}), a payload of
\* another kind, one without a token, JSON that is no object (null, the array
\* [1.0,2]), and text that is no JSON.
ScanTexts ==
  { RsvpText(Str("tokA")), RsvpText(Str(GhostToken)), RsvpText(Num(FALSE, 7, 0)),
    TokenText(<< Num(FALSE, 0, -1) >>), TokenText(<< Num(FALSE, 1, -400) >>),
    TokenText(<< P("{"), Str("a"), P(":"), Num(FALSE, 1, 0), P("}") >>),
    JSONStringify(<< [key |-> "t", val |-> Str("vcard")],
                     [key |-> "token", val |-> Str("tokA")] >>),
    JSONStringify(<< [key |-> "t", val |-> Str("rsvp")],
                     [key |-> "name", val |-> Str("Ana")] >>),
    << Lit("null") >>,
    << P("["), Num(FALSE, 10, -1), P(","), Num(FALSE, 2, 0), P("]") >>,
    HelloWorld }

\* ------------------------------------------------------------------- state
VARIABLES
  now,          \* the clock
  store,        \* collection "rsvps": token -> document, for the tokens that have one
  applied,      \* history: check-in updates applied to a document since it was written
  props,        \* the props the scanners are mounted with: cooldownMs, and whether
                \* onResult and onError are given
  mounted,      \* scanner -> the component is mounted
  ui,           \* scanner -> its React state: running, status, lastScanResult, isProcessing
  controlsRef,  \* scanner -> controlsRef.current: "null", or controls that are "active" or "stopped"
  sess,         \* scanner -> the bag of its pending and active camera sessions
  nextAllowed,  \* scanner -> nextAllowedRef.current
  inflight,     \* scanner -> the bag of its handleCheckIn calls that are not over
  gen,          \* the generator component: its state and its pending handleSubmit
  calls,        \* the onResult / onError calls the last step made
  gateLog       \* history: the decode hits of a cooldown-gate run, with their fate

vars == << now, store, applied, props, mounted, ui, controlsRef, sess,
           nextAllowed, inflight, gen, calls, gateLog >>

Hint == << "Point the camera at a QR code" >>
NoText == << >>

\* A bag with one more, or one fewer, copy of e.
Put(bag, e) == bag (+) SetToBag({e})
Take(bag, e) == bag (-) SetToBag({e})

\* A call of makeToken: its len, the bytes crypto.getRandomValues filled in,
\* and the characters it returned.
NoMakeToken == [pc |-> "none", len |-> 0, bytes |-> << >>, out |-> << >>]

GenIdle == [pc |-> "idle", isGenerating |-> FALSE, record |-> Record("", Ana, FALSE, "", NoTime),
            qrUrl |-> NoText, lastToken |-> "", message |-> "", mk |-> NoMakeToken]

\* Documents the collection may hold before this run: as handleSubmit writes
\* them, and as other clients of the shared collection do (with either declared
\* intent, or cancelled); none is checked in yet.
SeedRecords(tok) ==
  { Record(tok, Ana, TRUE, "invited", 0),
    Record(tok, Bob, FALSE, "invited", 0),
    Record(tok, Ana, FALSE, "cancelled", 0) }

InitCommon ==
  /\ \E seeded \in SUBSET {"tokA"} :
       /\ store \in { f \in [seeded -> UNION { SeedRecords(tok) : tok \in seeded }] :
                        \A tok \in seeded : f[tok].token = tok }
       /\ applied = [tok \in seeded |-> 0]
  /\ mounted = [s \in Scanners |-> TRUE]
  /\ ui = [s \in Scanners |->
             [running |-> FALSE, status |-> << "Tap Start to open camera." >>,
              lastScanResult |-> NoText, isProcessing |-> FALSE]]
  /\ controlsRef = [s \in Scanners |-> "null"]
  /\ sess = [s \in Scanners |-> EmptyBag]
  /\ nextAllowed = [s \in Scanners |-> 0]
  /\ inflight = [s \in Scanners |-> EmptyBag]
  /\ gen = GenIdle
  /\ calls = << >>

\* The props the scanners are mounted with: onResult and onError are optional;
\* the stations here get onResult, as App.tsx gives it, and onError or not.
Mountings(ms) ==
  { [cooldownMs |-> ms, onResult |-> TRUE, onError |-> e] : e \in BOOLEAN }

\* The scanner as App.tsx mounts it: onResult, and nothing else.
AppProps == [cooldownMs |-> DefaultCooldownMs, onResult |-> TRUE, onError |-> FALSE]

Init == InitCommon /\ now = 0 /\ gateLog = << >> /\ props \in Mountings(SmallCooldown)

\* ----------------------------------------------------------------- scanner
\* A state setter of an unmounted component changes nothing.
SetUi(s, new) == IF mounted[s] THEN new ELSE ui[s]

Call(s, cb, text, err) == [s |-> s, cb |-> cb, text |-> text, err |-> err]

\* onResult?.(text), onError?.(err): the call is made when the prop is given.
Notify(s, cb, text, err) == IF props[cb] THEN << Call(s, cb, text, err) >> ELSE << >>

\* The camera sessions of scanner s that are being acquired or are decoding.
\* st is "pending" (decodeFromConstraints has not settled) or "active";
\* current marks the one controlsRef.current holds; isProcessing and running
\* are the values the closures of its start() call captured.
Sessions(s) == BagToSet(sess[s])

\* controlsRef.current?.stop(): the session controlsRef holds, if any, ends.
StopControls(s) ==
  LET cur == { r \in Sessions(s) : r.current } IN
  IF cur = {} THEN sess[s] ELSE Take(sess[s], CHOOSE r \in cur : TRUE)

\* start(), up to its await: the Start button is shown while not running and is
\* disabled while isProcessing. The decode callback and the handleCheckIn this
\* start() was built with see isProcessing and running as they are now.
StartBegin(s) ==
  /\ mounted[s] /\ ~ui[s].running /\ ~ui[s].isProcessing
  /\ BagCardinality(sess[s]) < MaxStarts
  /\ sess' = [sess EXCEPT ![s] =
                Put(StopControls(s),
                    [st |-> "pending", current |-> FALSE,
                     isProcessing |-> ui[s].isProcessing, running |-> ui[s].running])]
  /\ controlsRef' = [controlsRef EXCEPT ![s] = "null"]
  /\ ui' = [ui EXCEPT ![s] = SetUi(s, [@ EXCEPT !.status = << "Requesting camera..." >>])]
  /\ calls' = << >>
  /\ UNCHANGED << now, store, applied, props, mounted, nextAllowed, inflight, gen, gateLog >>

\* controlsRef.current = <the new controls>: a session it held is let go of,
\* not stopped.
Assign(bag, r) ==
  LET cur == { q \in BagToSet(bag) : q.current }
      freed == IF cur = {} THEN bag
               ELSE LET q == CHOOSE q \in cur : TRUE IN
                    Put(Take(bag, q), [q EXCEPT !.current = FALSE])
  IN Put(freed, [r EXCEPT !.st = "active", !.current = TRUE])

\* decodeFromConstraints resolved: the session decodes from now on.
StartResolve(s, r) ==
  /\ r \in Sessions(s) /\ r.st = "pending"
  /\ sess' = [sess EXCEPT ![s] = Assign(Take(sess[s], r), r)]
  /\ controlsRef' = [controlsRef EXCEPT ![s] = "active"]
  /\ ui' = [ui EXCEPT ![s] = SetUi(s, [@ EXCEPT !.running = TRUE, !.status = Hint])]
  /\ calls' = << >>
  /\ UNCHANGED << now, store, applied, props, mounted, nextAllowed, inflight, gen, gateLog >>

CameraErrors == {"NotAllowedError", "NotFoundError", "SecurityError", "AbortError"}

CameraStatus(name) ==
  CASE name = "NotAllowedError" -> << "Camera permission denied. Allow camera access and retry." >>
    [] name = "NotFoundError" -> << "No camera found. Connect a webcam or try another device." >>
    [] name = "SecurityError" -> << "Use HTTPS or http://localhost in development." >>
    [] OTHER -> << "Unable to start camera." >>

\* decodeFromConstraints rejected.
StartFail(s, r, name) ==
  /\ r \in Sessions(s) /\ r.st = "pending"
  /\ sess' = [sess EXCEPT ![s] = Take(sess[s], r)]
  /\ ui' = [ui EXCEPT ![s] = SetUi(s, [@ EXCEPT !.running = FALSE, !.status = CameraStatus(name)])]
  /\ calls' = Notify(s, "onError", NoText, name)
  /\ UNCHANGED << now, store, applied, props, mounted, controlsRef, nextAllowed,
                  inflight, gen, gateLog >>

\* stop(): the Stop button is shown while running and is disabled while isProcessing.
Stop(s) ==
  /\ mounted[s] /\ ui[s].running /\ ~ui[s].isProcessing
  /\ sess' = [sess EXCEPT ![s] = StopControls(s)]
  /\ controlsRef' = [controlsRef EXCEPT ![s] = "null"]
  /\ ui' = [ui EXCEPT ![s] = [@ EXCEPT !.running = FALSE, !.status = << "Stopped" >>,
                                     !.lastScanResult = NoText]]
  /\ calls' = << >>
  /\ UNCHANGED << now, store, applied, props, mounted, nextAllowed, inflight, gen, gateLog >>

\* The cleanup of the mount effect: controlsRef.current?.stop(), and the ref
\* keeps the stopped controls.
Teardown(s) ==
  /\ mounted[s]
  /\ mounted' = [mounted EXCEPT ![s] = FALSE]
  /\ sess' = [sess EXCEPT ![s] = StopControls(s)]
  /\ controlsRef' = [controlsRef EXCEPT ![s] = IF @ = "active" THEN "stopped" ELSE @]
  /\ calls' = << >>
  /\ UNCHANGED << now, store, applied, props, ui, nextAllowed, inflight, gen, gateLog >>

\* ------------------------------------------------------- the decode callback
\* GateOpen with the comparison off by one.
GateOpenStrict(t, next) == t > next

\* The cooldown gate: `if (now < nextAllowedRef.current) return`.
GateOpen(t, next) == ~(t < next)

\* What the callback does with a text that passed the gate:
\* "checkin" (handleCheckIn(qrData)), "invalid" or "foreign".
Classify(text) ==
  LET qrData == JSONParse(text) IN
  CASE qrData.kind = "error" -> "foreign"   \* JSON.parse threw
    [] qrData.kind = "null" -> "foreign"    \* qrData.t of null threw, inside the same try
    [] OTHER -> IF Get(qrData, "t") = Str("rsvp") /\ Truthy(Get(qrData, "token"))
                THEN "checkin" ELSE "invalid"

FailedStatus(msg) == << "X Check-in failed: ", msg >>

\* The handleCheckIn calls of scanner s that are not over: pc is "getDoc" or
\* "updateDoc" (the call awaits it) or "timer" (the call has returned and its
\* status reset is scheduled).
InFlight(s) == BagToSet(inflight[s])

NewCall(qrData, running) ==
  [pc |-> "getDoc", qrData |-> qrData, name |-> "", email |-> "", at |-> NoTime,
   running |-> running]

\* The timer of a call: only the running its closure captured matters to it.
TimerOf(c) == [NewCall(<< >>, c.running) EXCEPT !.pc = "timer"]

\* Finally without setIsProcessing(false).
FinallyKeepsBusy(s, others, c, uiNow) ==
  /\ ui' = [ui EXCEPT ![s] = SetUi(s, uiNow)]
  /\ inflight' = [inflight EXCEPT ![s] = Put(others, TimerOf(c))]

\* finally: setIsProcessing(false), and the status reset is scheduled. others
\* are the calls of the scanner besides c, uiNow the state the call has set.
Finally(s, others, c, uiNow) ==
  /\ ui' = [ui EXCEPT ![s] = SetUi(s, [uiNow EXCEPT !.isProcessing = FALSE])]
  /\ inflight' = [inflight EXCEPT ![s] = Put(others, TimerOf(c))]

\* Catch without the call of onError.
CatchNoOnError(s, others, c, msg) ==
  /\ Finally(s, others, c, [ui[s] EXCEPT !.status = FailedStatus(msg)])
  /\ calls' = << >>

\* catch: the status shows error.message and onError gets the error.
Catch(s, others, c, msg) ==
  /\ Finally(s, others, c, [ui[s] EXCEPT !.status = FailedStatus(msg)])
  /\ calls' = Notify(s, "onError", NoText, msg)

\* handleCheckIn(qrData) up to its first await, called by the decode callback of
\* session r: either getDoc is under way afterwards, or the call is over.
CheckInBegin(s, r, qrData) ==
  LET token == Get(qrData, "token")
      c == NewCall(qrData.ms, r.running)
  IN
  /\ BagCardinality(inflight[s]) < MaxInFlight
  /\ IF ~Truthy(token)
     THEN Catch(s, inflight[s], c, "Invalid QR code: No token found")
     ELSE IF token.k # "str"
     THEN Catch(s, inflight[s], c, "doc: the document id is not a string")
     ELSE /\ ui' = [ui EXCEPT ![s] = SetUi(s, [@ EXCEPT !.isProcessing = TRUE,
                                                        !.status = << "Processing check-in..." >>])]
          /\ inflight' = [inflight EXCEPT ![s] = Put(@, c)]
          /\ calls' = << >>

\* Whether the callback goes on with a result: `if (result && !isProcessing)`,
\* with the isProcessing the callback closed over.
NotBusy(r) == ~r.isProcessing

\* The callback's work on a decoded text: the busy check, the gate, the
\* classification.
DecodeCore(s, r, text) ==
  LET outcome == Classify(text) IN
  /\ r \in Sessions(s) /\ r.st = "active"
  /\ IF ~NotBusy(r) \/ ~GateOpen(now, nextAllowed[s])
     THEN /\ calls' = << >>
          /\ UNCHANGED << ui, nextAllowed, inflight >>
     ELSE /\ nextAllowed' = [nextAllowed EXCEPT ![s] = now + props.cooldownMs]
          /\ CASE outcome = "checkin" -> CheckInBegin(s, r, JSONParse(text))
               [] outcome = "invalid" ->
                    /\ ui' = [ui EXCEPT ![s] = SetUi(s, [@ EXCEPT !.status = << "X Invalid RSVP QR code" >>])]
                    /\ calls' = Notify(s, "onResult", text, "")
                    /\ UNCHANGED inflight
               [] OTHER ->
                    /\ ui' = [ui EXCEPT ![s] = SetUi(s, [@ EXCEPT !.status = << "X Not an RSVP QR code" >>])]
                    /\ calls' = Notify(s, "onResult", text, "")
                    /\ UNCHANGED inflight
  /\ UNCHANGED << now, store, applied, props, mounted, controlsRef, sess, gen >>

DecodeHit(s, r, text) == DecodeCore(s, r, text) /\ UNCHANGED gateLog

\* ------------------------------------------------------------ handleCheckIn
TokenOf(c) == Get([kind |-> "object", ms |-> c.qrData], "token").v

\* CheckInUpdate without checkedInAt.
CheckInUpdateNoTime(doc, at) ==
  [doc EXCEPT !.coming = TRUE, !.status = "checked_in", !.checkedInBy = "scanner"]

\* CheckInUpdate without `coming: true`.
CheckInUpdateKeepsComing(doc, at) ==
  [doc EXCEPT !.status = "checked_in", !.checkedInAt = at, !.checkedInBy = "scanner"]

\* The fields updateDoc merges into the document.
CheckInUpdate(doc, at) ==
  [doc EXCEPT !.coming = TRUE, !.status = "checked_in", !.checkedInAt = at,
              !.checkedInBy = "scanner"]

\* AlreadyCheckedIn without the test of the status.
AlreadyCheckedInNever(doc) == FALSE

\* `if (rsvpData.status === "checked_in")`: the call ends without a write.
AlreadyCheckedIn(doc) == doc.status = "checked_in"

\* getDoc settled.
GetDocReturn(s, c, ok) ==
  LET token == TokenOf(c)
      others == Take(inflight[s], c) IN
  /\ c \in InFlight(s) /\ c.pc = "getDoc"
  /\ IF ~ok
     THEN Catch(s, others, c, "unavailable")
     ELSE IF token \notin DOMAIN store
     THEN Catch(s, others, c, "RSVP not found")
     ELSE IF AlreadyCheckedIn(store[token])
     THEN /\ Finally(s, others, c,
                     [ui[s] EXCEPT !.status = << store[token].name, " is already checked in!" >>])
          /\ calls' = << >>
     ELSE \* updateDoc is called with checkedInAt: new Date()
          /\ inflight' = [inflight EXCEPT ![s] =
                            Put(others, [c EXCEPT !.pc = "updateDoc", !.name = store[token].name,
                                                  !.email = store[token].email, !.at = now])]
          /\ calls' = << >>
          /\ UNCHANGED ui
  /\ UNCHANGED << now, store, applied, props, mounted, controlsRef, sess, nextAllowed,
                  gen, gateLog >>

\* UpdateDocReturn that also writes the name the scanned payload carries.
UpdateDocReturnFromPayload(s, c, ok) ==
  LET token == TokenOf(c)
      others == Take(inflight[s], c) IN
  /\ c \in InFlight(s) /\ c.pc = "updateDoc"
  /\ IF ok /\ token \in DOMAIN store
     THEN /\ store' = [store EXCEPT ![token] =
                         [CheckInUpdate(@, c.at) EXCEPT
                            !.name = Get([kind |-> "object", ms |-> c.qrData], "name").v]]
          /\ applied' = [applied EXCEPT ![token] = @ + 1]
          /\ Finally(s, others, c,
                     [ui[s] EXCEPT !.status = << "OK ", c.name, " checked in successfully!" >>,
                                   !.lastScanResult = << "Welcome ", c.name, "! Email: ", c.email >>])
          /\ calls' = Notify(s, "onResult",
                              JSONStringify(SetMember(SetMember(c.qrData, "status", Str("checked_in")),
                                                      "checkedInAt", Str(ToString(now)))),
                              "")
     ELSE /\ Catch(s, others, c, IF ok THEN "No document to update" ELSE "unavailable")
          /\ UNCHANGED << store, applied >>
  /\ UNCHANGED << now, props, mounted, controlsRef, sess, nextAllowed, gen, gateLog >>

\* updateDoc settled: applied to the document, or failed (a fault, or no such
\* document) with the document as it was.
UpdateDocReturn(s, c, ok) ==
  LET token == TokenOf(c)
      others == Take(inflight[s], c) IN
  /\ c \in InFlight(s) /\ c.pc = "updateDoc"
  /\ IF ok /\ token \in DOMAIN store
     THEN /\ store' = [store EXCEPT ![token] = CheckInUpdate(@, c.at)]
          /\ applied' = [applied EXCEPT ![token] = @ + 1]
          /\ Finally(s, others, c,
                     [ui[s] EXCEPT !.status = << "OK ", c.name, " checked in successfully!" >>,
                                   !.lastScanResult = << "Welcome ", c.name, "! Email: ", c.email >>])
          /\ calls' = Notify(s, "onResult",
                              JSONStringify(SetMember(SetMember(c.qrData, "status", Str("checked_in")),
                                                      "checkedInAt", Str(ToString(now)))),
                              "")
     ELSE /\ Catch(s, others, c, IF ok THEN "No document to update" ELSE "unavailable")
          /\ UNCHANGED << store, applied >>
  /\ UNCHANGED << now, props, mounted, controlsRef, sess, nextAllowed, gen, gateLog >>

\* The timer of the finally block fires (its delay is not modelled: it fires at
\* some later point).
TimerFire(s, c) ==
  /\ c \in InFlight(s) /\ c.pc = "timer"
  /\ ui' = [ui EXCEPT ![s] = IF c.running THEN SetUi(s, [@ EXCEPT !.status = Hint]) ELSE @]
  /\ inflight' = [inflight EXCEPT ![s] = Take(@, c)]
  /\ calls' = << >>
  /\ UNCHANGED << now, store, applied, props, mounted, controlsRef, sess, nextAllowed,
                  gen, gateLog >>

Tick ==
  /\ now < MaxTime
  /\ now' = now + 1
  /\ calls' = << >>
  /\ UNCHANGED << store, applied, props, mounted, ui, controlsRef, sess, nextAllowed,
                  inflight, gen, gateLog >>

\* --------------------------------------------------------------- generator
\* A form field as typed is the sequence of its characters. A character a
\* string of the model cannot spell is written as its code point: "U+00A0".
\* The characters \s matches and trim() removes: the white space and the line
\* terminators of JavaScript.
WhiteSpace ==
  { " ", "\t", "\n", "\r", "\f", "U+000B", "U+00A0", "U+1680",
    "U+2000", "U+2001", "U+2002", "U+2003", "U+2004", "U+2005", "U+2006", "U+2007",
    "U+2008", "U+2009", "U+200A", "U+2028", "U+2029", "U+202F", "U+205F", "U+3000",
    "U+FEFF" }

RECURSIVE TrimStart(_)
TrimStart(v) == IF v # << >> /\ Head(v) \in WhiteSpace THEN TrimStart(Tail(v)) ELSE v

RECURSIVE TrimEnd(_)
TrimEnd(v) ==
  IF v # << >> /\ v[Len(v)] \in WhiteSpace THEN TrimEnd(SubSeq(v, 1, Len(v) - 1)) ELSE v

\* The string of a sequence of characters.
RECURSIVE Join(_)
Join(v) == IF v = << >> THEN "" ELSE Head(v) \o Join(Tail(v))

\* v.trim()
Trim(v) == Join(TrimEnd(TrimStart(v)))

\* /^[^\s@]+@[^\s@]+\.[^\s@]+$/: no white space, one @ with something before
\* it, and after it a dot with something on both sides.
emailOk(v) ==
  /\ \A i \in 1..Len(v) : v[i] \notin WhiteSpace
  /\ \E at \in 2..Len(v) :
       /\ v[at] = "@"
       /\ \A i \in 1..Len(v) : v[i] = "@" => i = at
       /\ \E dot \in (at + 2)..(Len(v) - 1) : v[dot] = "."

PhoneChars == {"0", "1", "2", "3", "4", "5", "6", "7", "8", "9", "+", "-"} \cup WhiteSpace

\* /^[0-9+\-\s]{7,15}$/
phoneOk(v) ==
  /\ Len(v) >= 7 /\ Len(v) <= 15
  /\ \A i \in 1..Len(v) : v[i] \in PhoneChars

\* Object.keys(errors).length === 0
isValid(data) ==
  /\ Trim(data.name) # ""
  /\ Trim(data.email) # "" /\ emailOk(data.email)
  /\ Trim(data.phone) # "" /\ phoneOk(data.phone)
  /\ data.confirmComing

\* What the guests type: Ana's and Bob's fields, character by character.
AnaTyped ==
  [name |-> << "A", "n", "a" >>,
   email |-> << "a", "@", "x", ".", "c", "o", "m" >>,
   phone |-> << "+", "1", " ", "5", "5", "5", "1", "2", "3", "4", "5", "6", "7" >>]
BobTyped ==
  [name |-> << "B", "o", "b" >>,
   email |-> << "b", "@", "x", ".", "c", "o", "m" >>,
   phone |-> << "5", "5", "5", "0", "0", "0", "0", "0", "0", "0" >>]

\* v with n blanks before it and n after it.
Pad(v, n) == [i \in 1..n |-> " "] \o v \o [i \in 1..n |-> " "]

\* A form: the fields of a guest, each with so many blanks around it.
Form(typed, namePad, emailPad, phonePad, confirm) ==
  [name |-> Pad(typed.name, namePad), email |-> Pad(typed.email, emailPad),
   phone |-> Pad(typed.phone, phonePad), confirmComing |-> confirm]

\* The forms submitted: valid ones (with white space around the name, or one
\* white space character on each side of a phone number, which the pattern
\* allows up to 15 characters), and forms that are not valid: not confirmed,
\* white space before the address, a padded phone number of more than 15
\* characters, a name of nothing but white space.
Forms ==
  { [Form(AnaTyped, 1, 0, 0, TRUE) EXCEPT !.name = << "\r" >> \o @ \o << "U+00A0" >>],
    Form(BobTyped, 0, 0, 0, TRUE),
    [Form(AnaTyped, 0, 0, 0, TRUE) EXCEPT !.phone = << "\f" >> \o @ \o << "U+FEFF" >>],
    Form(BobTyped, 0, 0, 0, FALSE),
    [Form(BobTyped, 0, 0, 0, TRUE) EXCEPT !.email = << "U+3000" >> \o @],
    Form(AnaTyped, 0, 0, 3, TRUE), Form(BobTyped, 0, 0, 3, TRUE),
    [Form(BobTyped, 0, 0, 0, TRUE) EXCEPT !.name = << "\r", "U+2028" >>] }

\* handleSubmit up to its first await: the submit button is disabled while
\* isGenerating. makeToken's result is any of Tokens.
SubmitBegin(data, token) ==
  /\ ~gen.isGenerating
  /\ IF ~isValid(data)
     THEN gen' = [gen EXCEPT !.message = ""]
     ELSE gen' = [gen EXCEPT !.message = "", !.isGenerating = TRUE, !.pc = "setDoc",
                             !.record = [t |-> "rsvp", token |-> token,
                                         name |-> Trim(data.name), email |-> Trim(data.email),
                                         phone |-> Trim(data.phone), coming |-> data.confirmComing,
                                         status |-> "invited", createdAt |-> NoTime,
                                         checkedInAt |-> NoTime, checkedInBy |-> ""]]
  /\ calls' = << >>
  /\ UNCHANGED << now, store, applied, props, mounted, ui, controlsRef, sess,
                  nextAllowed, inflight, gateLog >>

\* setDoc(ref, record): the document becomes the record, whatever it was.
SetDoc(st, token, record) ==
  [tok \in DOMAIN st \cup {token} |-> IF tok = token THEN record ELSE st[tok]]

GenFailed == [GenIdle EXCEPT !.message = "Failed to generate QR. Please try again."]

GenDone(g) == [g EXCEPT !.pc = "idle", !.isGenerating = FALSE, !.record = GenIdle.record]

\* SetDocReturn that goes on to the QR code when the write failed.
SetDocReturnIgnoresFailure(ok) ==
  /\ gen.pc = "setDoc"
  /\ IF ok
     THEN /\ store' = SetDoc(store, gen.record.token, [gen.record EXCEPT !.createdAt = now])
          /\ applied' = [tok \in DOMAIN store \cup {gen.record.token} |->
                           IF tok = gen.record.token THEN 0 ELSE applied[tok]]
     ELSE UNCHANGED << store, applied >>
  /\ gen' = [gen EXCEPT !.pc = "toDataURL"]
  /\ calls' = << >>
  /\ UNCHANGED << now, props, mounted, ui, controlsRef, sess, nextAllowed, inflight, gateLog >>

\* setDoc settled; on success QRCode.toDataURL(payload) is under way.
SetDocReturn(ok) ==
  /\ gen.pc = "setDoc"
  /\ IF ok
     THEN /\ store' = SetDoc(store, gen.record.token, [gen.record EXCEPT !.createdAt = now])
          /\ applied' = [tok \in DOMAIN store \cup {gen.record.token} |->
                           IF tok = gen.record.token THEN 0 ELSE applied[tok]]
          /\ gen' = [gen EXCEPT !.pc = "toDataURL"]
     ELSE /\ gen' = GenDone([gen EXCEPT !.message = GenFailed.message])
          /\ UNCHANGED << store, applied >>
  /\ calls' = << >>
  /\ UNCHANGED << now, props, mounted, ui, controlsRef, sess, nextAllowed, inflight, gateLog >>

\* QRCode.toDataURL settled: the image is shown as the text it encodes.
ToDataURLReturn(ok) ==
  /\ gen.pc = "toDataURL"
  /\ gen' = GenDone(IF ok
                    THEN [gen EXCEPT !.qrUrl = Payload(gen.record), !.lastToken = gen.record.token,
                                     !.message = "RSVP saved and QR generated."]
                    ELSE [gen EXCEPT !.message = GenFailed.message])
  /\ calls' = << >>
  /\ UNCHANGED << now, store, applied, props, mounted, ui, controlsRef, sess,
                  nextAllowed, inflight, gateLog >>

resetAll ==
  /\ gen' = [gen EXCEPT !.qrUrl = NoText, !.lastToken = "", !.message = ""]
  /\ calls' = << >>
  /\ UNCHANGED << now, store, applied, props, mounted, ui, controlsRef, sess,
                  nextAllowed, inflight, gateLog >>

\* ------------------------------------------------------------ specification
ScannerNext(s) ==
  \/ StartBegin(s)
  \/ \E r \in Sessions(s) : StartResolve(s, r)
  \/ \E r \in Sessions(s), name \in CameraErrors : StartFail(s, r, name)
  \/ Stop(s)
  \/ Teardown(s)
  \/ \E r \in Sessions(s), text \in ScanTexts : DecodeHit(s, r, text)
  \/ \E c \in InFlight(s), ok \in BOOLEAN : GetDocReturn(s, c, ok)
  \/ \E c \in InFlight(s), ok \in BOOLEAN : UpdateDocReturn(s, c, ok)
  \/ \E c \in InFlight(s) : TimerFire(s, c)

GeneratorNext ==
  \/ \E data \in Forms, token \in Tokens : SubmitBegin(data, token)
  \/ \E ok \in BOOLEAN : SetDocReturn(ok)
  \/ \E ok \in BOOLEAN : ToDataURLReturn(ok)
  \/ resetAll

\* The whole system: every scanner station, the generator, the clock.
Next == Tick \/ (\E s \in Scanners : ScannerNext(s)) \/ GeneratorNext

Spec == Init /\ [][Next]_vars

\* One station at work on the shared collection.
StationNext == Tick \/ ScannerNext("s1")

SpecStation == Init /\ [][StationNext]_vars

\* The texts that make the callback dispatch a check-in.
RsvpTexts == { text \in ScanTexts : Classify(text) = "checkin" }

\* A station that reads RSVP codes only and whose camera opens, with fair store
\* calls: a getDoc or updateDoc under way settles (the store answers or fails).
CheckInNext ==
  \/ Tick
  \/ StartBegin("s1")
  \/ \E r \in Sessions("s1") : StartResolve("s1", r)
  \/ Stop("s1")
  \/ Teardown("s1")
  \/ \E r \in Sessions("s1"), text \in RsvpTexts : DecodeHit("s1", r, text)
  \/ \E c \in InFlight("s1"), ok \in BOOLEAN : GetDocReturn("s1", c, ok)
  \/ \E c \in InFlight("s1"), ok \in BOOLEAN : UpdateDocReturn("s1", c, ok)
  \/ \E c \in InFlight("s1") : TimerFire("s1", c)

FairStation ==
  /\ Init /\ [][CheckInNext]_vars
  /\ WF_vars(\E c \in InFlight("s1"), ok \in BOOLEAN : GetDocReturn("s1", c, ok))
  /\ WF_vars(\E c \in InFlight("s1"), ok \in BOOLEAN : UpdateDocReturn("s1", c, ok))

\* The calls of scanner s that await the store.
Awaiting(s) ==
  BagCardinality(inflight[s]) - CopiesIn(TimerOf([running |-> FALSE]), inflight[s])
                              - CopiesIn(TimerOf([running |-> TRUE]), inflight[s])

\* One station whose operator presents a code only when no check-in of the
\* station awaits the store: check-ins run one after the other; the codes are
\* those of ScanTexts, the payload with an index key and the payload whose
\* token is Infinity. Nothing else
\* is held back: the camera may fail, and the station may be stopped or
\* unmounted at any time.
SeqNext ==
  \/ Tick
  \/ StartBegin("s1")
  \/ \E r \in Sessions("s1") : StartResolve("s1", r)
  \/ \E r \in Sessions("s1"), name \in CameraErrors : StartFail("s1", r, name)
  \/ Stop("s1")
  \/ Teardown("s1")
  \/ \E r \in Sessions("s1"), text \in ScanTexts \cup {IndexKeyText, HugeTokenText} :
       Awaiting("s1") = 0 /\ DecodeHit("s1", r, text)
  \/ \E c \in InFlight("s1"), ok \in BOOLEAN : GetDocReturn("s1", c, ok)
  \/ \E c \in InFlight("s1"), ok \in BOOLEAN : UpdateDocReturn("s1", c, ok)
  \/ \E c \in InFlight("s1") : TimerFire("s1", c)

SpecSeq == Init /\ [][SeqNext]_vars

\* Two stations, each started once, that read codes of token tokA, which has an
\* invited record, while the store answers every call.
InitTwo == Init /\ "tokA" \in DOMAIN store /\ store["tokA"].status = "invited"

TwoNext ==
  \/ Tick
  \/ \E s \in Scanners : sess[s] = EmptyBag /\ StartBegin(s)
  \/ \E s \in Scanners : \E r \in Sessions(s) : StartResolve(s, r)
  \/ \E s \in Scanners : \E r \in Sessions(s) : DecodeHit(s, r, RsvpText(Str("tokA")))
  \/ \E s \in Scanners : \E c \in InFlight(s) : GetDocReturn(s, c, TRUE)
  \/ \E s \in Scanners : \E c \in InFlight(s) : UpdateDocReturn(s, c, TRUE)
  \/ \E s \in Scanners : \E c \in InFlight(s) : TimerFire(s, c)

SpecTwo == InitTwo /\ [][TwoNext]_vars

\* A run of the cooldown gate of the scanner as App.tsx mounts it (the default
\* cooldownMs, onResult given, no onError): the station is
\* started and codes are presented at the times of a schedule, gateLog, whose
\* entries tell the time, the text, and what became of the hit: "todo",
\* "processed" (the callback went past the gate and moved nextAllowedRef) or
\* "discarded" (it returned at the gate). The codes are foreign text, a payload
\* of another kind, and the RSVP code of tokA, which has an invited record; the
\* check-ins that the hits start go on between the hits.
MaxGateStart == 1

VcardText == JSONStringify(<< [key |-> "t", val |-> Str("vcard")],
                              [key |-> "token", val |-> Str("tokA")] >>)

GateOffsets == { << 0, 1, 199, 201 >>, << 0, 200, 399, 400 >>, << 0, 199, 200, 201 >> }

InitGate ==
  /\ InitCommon
  /\ props = AppProps
  /\ store = [tok \in {"tokA"} |-> Record("tokA", Ana, TRUE, "invited", 0)]
  /\ now \in 0..MaxGateStart
  /\ \E offs \in GateOffsets, texts \in [1..4 -> {HelloWorld, VcardText, RsvpText(Str("tokA"))}] :
       gateLog = [i \in 1..4 |-> [at |-> now + offs[i], text |-> texts[i], fate |-> "todo"]]

Todo == { i \in 1..Len(gateLog) : gateLog[i].fate = "todo" }
NextHit == CHOOSE i \in Todo : \A j \in Todo : i <= j

\* Time passes until the next code of the schedule is in front of the camera.
GateAdvance ==
  /\ Todo # {} /\ now < gateLog[NextHit].at
  /\ now' = gateLog[NextHit].at
  /\ calls' = << >>
  /\ UNCHANGED << store, applied, props, mounted, ui, controlsRef, sess, nextAllowed,
                  inflight, gen, gateLog >>

\* The decode callback gets the next code of the schedule.
GateHit(s, r) ==
  /\ Todo # {} /\ now = gateLog[NextHit].at
  /\ DecodeCore(s, r, gateLog[NextHit].text)
  /\ gateLog' = [gateLog EXCEPT ![NextHit].fate =
                   IF NotBusy(r) /\ GateOpen(now, nextAllowed[s])
                   THEN "processed" ELSE "discarded"]

GateNext ==
  \/ StartBegin("s1")
  \/ \E r \in Sessions("s1") : StartResolve("s1", r)
  \/ GateAdvance
  \/ \E r \in Sessions("s1") : GateHit("s1", r)
  \/ \E c \in InFlight("s1"), ok \in BOOLEAN : GetDocReturn("s1", c, ok)
  \/ \E c \in InFlight("s1"), ok \in BOOLEAN : UpdateDocReturn("s1", c, ok)
  \/ \E c \in InFlight("s1") : TimerFire("s1", c)

SpecGate == InitGate /\ [][GateNext]_vars

\* The registration desk and one station, started once, with a store that
\* answers: guests register, and between registrations the station reads
\* their codes one after the other: a code as the generator shows it, or a code
\* of a token that carries another guest's fields.
DeskTexts ==
  { RsvpText(Str(tok)) : tok \in Tokens } \cup (IF gen.qrUrl = NoText THEN {} ELSE {gen.qrUrl})

DeskNext ==
  \/ Tick
  \/ \E data \in Forms, token \in Tokens :
       inflight["s1"] = EmptyBag /\ SubmitBegin(data, token)
  \/ \E ok \in BOOLEAN : SetDocReturn(ok)
  \/ \E ok \in BOOLEAN : ToDataURLReturn(ok)
  \/ sess["s1"] = EmptyBag /\ StartBegin("s1")
  \/ \E r \in Sessions("s1") : StartResolve("s1", r)
  \/ \E r \in Sessions("s1"), text \in DeskTexts :
       inflight["s1"] = EmptyBag /\ gen.pc = "idle" /\ DecodeHit("s1", r, text)
  \/ \E c \in InFlight("s1") : GetDocReturn("s1", c, TRUE)
  \/ \E c \in InFlight("s1") : UpdateDocReturn("s1", c, TRUE)
  \/ \E c \in InFlight("s1") : TimerFire("s1", c)

SpecDesk == Init /\ [][DeskNext]_vars

\* makeToken on its own: a length, the random bytes, the characters returned.
MaxTokenLen == 3

alphabet ==
  << "0", "1", "2", "3", "4", "5", "6", "7", "8", "9",
     "a", "b", "c", "d", "e", "f", "g", "h", "i", "j", "k", "l", "m",
     "n", "o", "p", "q", "r", "s", "t", "u", "v", "w", "x", "y", "z",
     "A", "B", "C", "D", "E", "F", "G", "H", "I", "J", "K", "L", "M",
     "N", "O", "P", "Q", "R", "S", "T", "U", "V", "W", "X", "Y", "Z" >>

\* makeToken with the remainder taken by 61.
makeTokenMod61(bytes) == [i \in 1..Len(bytes) |-> alphabet[(bytes[i] % 61) + 1]]

\* Array.from(bytes, (b) => alphabet[b % alphabet.length]).join(""): the string
\* as the sequence of its characters (sequences count from 1).
makeToken(bytes) == [i \in 1..Len(bytes) |-> alphabet[(bytes[i] % Len(alphabet)) + 1]]

\* Every value of a byte is drawn for a token of one character; longer tokens
\* draw each byte from the values around the multiples of 62 and the ends.
ByteSamples == {0, 9, 10, 35, 36, 61, 62, 123, 124, 185, 186, 247, 248, 255}

InitToken ==
  /\ InitCommon /\ now = 0 /\ gateLog = << >> /\ props \in Mountings(SmallCooldown)
  /\ DOMAIN store = {}

\* makeToken(len) is called: new Uint8Array(len).
MakeTokenCall(len) ==
  /\ gen.mk.pc = "none"
  /\ gen' = [gen EXCEPT !.mk = [pc |-> "fill", len |-> len, bytes |-> [i \in 1..len |-> 0],
                                out |-> << >>]]
  /\ UNCHANGED << now, store, applied, props, mounted, ui, controlsRef, sess,
                  nextAllowed, inflight, calls, gateLog >>

\* crypto.getRandomValues(bytes)
GetRandomValues(bytes) ==
  /\ gen.mk.pc = "fill" /\ Len(bytes) = gen.mk.len
  /\ gen' = [gen EXCEPT !.mk.pc = "map", !.mk.bytes = bytes]
  /\ UNCHANGED << now, store, applied, props, mounted, ui, controlsRef, sess,
                  nextAllowed, inflight, calls, gateLog >>

\* return Array.from(...).join("")
MakeTokenReturn ==
  /\ gen.mk.pc = "map"
  /\ gen' = [gen EXCEPT !.mk.pc = "done", !.mk.out = makeToken(gen.mk.bytes)]
  /\ UNCHANGED << now, store, applied, props, mounted, ui, controlsRef, sess,
                  nextAllowed, inflight, calls, gateLog >>

TokenNext ==
  \/ \E len \in 0..MaxTokenLen : MakeTokenCall(len)
  \/ /\ gen.mk.pc = "fill"
     /\ \E bytes \in [1..gen.mk.len -> IF gen.mk.len = 1 THEN 0..255 ELSE ByteSamples] :
          GetRandomValues(bytes)
  \/ MakeTokenReturn

SpecToken == InitToken /\ [][TokenNext]_vars

\* The registration desk on its own: the generator and the clock.
GenNext == Tick \/ GeneratorNext

SpecGen == Init /\ [][GenNext]_vars

\* ------------------------------------------------------------------ claims
IsSuccess(st) == Len(st) = 3 /\ st[1] = "OK " /\ st[3] = " checked in successfully!"
IsAlready(st) == Len(st) = 2 /\ st[2] = " is already checked in!"
IsFailed(st) == Len(st) = 2 /\ st[1] = "X Check-in failed: "

\* C1 (as claimed): whatever the stations do, the check-in update is applied to
\* a record at most once; once the record is checked_in nothing writes to it.
C1_AtMostOneCheckInWrite == \A tok \in DOMAIN applied : applied[tok] <= 1

\* C2 (as claimed): of two check-ins of one invited token that race on two
\* stations, one reports success and the other "already checked in": the two
\* stations never both show the success of the one record's check-in.
C2_RaceHasOneSuccess ==
  \A a, b \in Scanners : a # b => ~(IsSuccess(ui[a].status) /\ IsSuccess(ui[b].status))

\* A call equal to c leaves the calls of scanner s in this step.
Settles(s, c) == CopiesIn(c, inflight'[s]) < CopiesIn(c, inflight[s])

\* C3: when check-ins run one after the other, a record never changes once it is
\* checked_in (no second write, checkedInAt stays); the check-in that makes it
\* checked_in shows the success, and a later check-in of it whose read succeeds
\* shows "already checked in" and leaves no call awaiting the store. What a
\* check-in shows is seen while the component is mounted; the success is also
\* reported to onResult, mounted or not.
C3_SequentialIdempotence ==
  [][\A tok \in DOMAIN store :
       /\ (store[tok].status # "checked_in" /\ store'[tok].status = "checked_in")
            => /\ mounted["s1"] => IsSuccess(ui'["s1"].status)
               /\ props.onResult =>
                    /\ Len(calls') = 1 /\ calls'[1].cb = "onResult"
                    /\ Get(JSONParse(calls'[1].text), "token") = Str(tok)
                    /\ Get(JSONParse(calls'[1].text), "status") = Str("checked_in")
       /\ store[tok].status = "checked_in" =>
            /\ store'[tok] = store[tok]
            /\ \A c \in InFlight("s1") :
                 (c.pc = "getDoc" /\ TokenOf(c) = tok /\ GetDocReturn("s1", c, TRUE))
                   => /\ mounted["s1"] => IsAlready(ui'["s1"].status)
                      /\ \A d \in BagToSet(inflight'["s1"]) : d.pc = "timer"
    ]_vars

\* C3's case: after a success and some time, the code was read again: the
\* station shows "already checked in", one update was applied, and checkedInAt
\* is still the time of the first check-in.
C3_Witness ==
  /\ "tokA" \in DOMAIN store
  /\ IsAlready(ui["s1"].status)
  /\ applied["tokA"] = 1
  /\ store["tokA"].checkedInAt # NoTime /\ store["tokA"].checkedInAt < now

\* C4 (as claimed): a station has at most one check-in awaiting the store.
C4_OneRoundTripInFlight == \A s \in Scanners : Awaiting(s) <= 1

\* C5: a check-in of a token without a record ends in the catch block: onError,
\* when the station was given one, is called with "RSVP not found" (or with the
\* store's fault, when the read itself failed), the status shows that failure,
\* busy is cleared, no update is under way and the store is as it was; no step
\* of a station creates a record.
C5_NotFoundFails ==
  [][/\ DOMAIN store' = DOMAIN store
     /\ \A c \in InFlight("s1") :
          (c.pc = "getDoc" /\ TokenOf(c) \notin DOMAIN store /\ Settles("s1", c))
            => /\ \E msg \in {"RSVP not found", "unavailable"} :
                    /\ calls' = Notify("s1", "onError", NoText, msg)
                    /\ mounted["s1"] => /\ ui'["s1"].status = FailedStatus(msg)
                                        /\ ~ui'["s1"].isProcessing
               /\ store' = store
               /\ \A d \in BagToSet(inflight'["s1"]) : d.pc = "updateDoc" => d \in InFlight("s1")
    ]_vars

\* C5's case: the check-in of a token that has no record has just failed.
C5_Witness ==
  /\ calls = << Call("s1", "onError", NoText, "RSVP not found") >>
  /\ ui["s1"].status = FailedStatus("RSVP not found")
  /\ ~ui["s1"].isProcessing
  /\ GhostToken \notin DOMAIN store

\* C6: a record that is checked_in has coming = true.
C6_CheckedInIsComing ==
  \A tok \in DOMAIN store : store[tok].status = "checked_in" => store[tok].coming

\* C6's case: a record registered with coming = false has been checked in.
C6_Witness ==
  /\ "tokA" \in DOMAIN store
  /\ store["tokA"].status = "checked_in"
  /\ store["tokA"].name = "Bob"
  /\ applied["tokA"] >= 1

\* The hits of the schedule that went past the gate.
Processed == { i \in 1..Len(gateLog) : gateLog[i].fate = "processed" }

\* C7: a hit is processed exactly if it comes no earlier than cooldownMs after
\* the last processed hit (nextAllowed is 0 at first, and the time of the last
\* processed hit plus cooldownMs afterwards: a discarded hit leaves it alone),
\* whatever the text; two processed hits are at least cooldownMs apart; of hits
\* at t, t+1, t+199, t+201 with cooldownMs = 200 the first and the last are
\* processed.
C7_CooldownGate ==
  /\ \A i \in 1..Len(gateLog) :
       gateLog[i].fate # "todo" =>
         (gateLog[i].fate = "processed"
            <=> \A j \in Processed : j < i => gateLog[i].at >= gateLog[j].at + props.cooldownMs)
  /\ \A i, j \in Processed : i < j => gateLog[j].at - gateLog[i].at >= props.cooldownMs
  /\ nextAllowed["s1"] =
       IF Processed = {} THEN 0
       ELSE gateLog[CHOOSE i \in Processed : \A j \in Processed : j <= i].at + props.cooldownMs
  /\ (/\ Todo = {} /\ props.cooldownMs = 200
      /\ \A i \in 1..4 : gateLog[i].at = gateLog[1].at + << 0, 1, 199, 201 >>[i])
       => Processed = {1, 4}

\* C7's case: the four hits at t, t+1, t+199, t+201 have been handled, the
\* first of them the RSVP code of tokA and the second a foreign text.
C7_Witness ==
  /\ Todo = {} /\ props.cooldownMs = 200
  /\ \A i \in 1..4 : gateLog[i].at = gateLog[1].at + << 0, 1, 199, 201 >>[i]
  /\ gateLog[1].text = RsvpText(Str("tokA")) /\ gateLog[2].text = HelloWorld
  /\ Processed = {1, 4}
  /\ nextAllowed["s1"] = gateLog[4].at + 200

\* The texts of the three outcomes, told apart as the claim does.
Parses(text) == JSONParse(text).kind # "error"
IsRsvp(text) ==
  /\ JSONParse(text).kind = "object"
  /\ Get(JSONParse(text), "t") = Str("rsvp")
  /\ Truthy(Get(JSONParse(text), "token"))

\* C8 (as claimed): when the callback has passed a raw text to onResult, the text
\* is no valid RSVP payload, and the status is "Invalid RSVP QR code" if the text
\* parses and "Not an RSVP QR code" if it does not.
C8_ThreeOutcomes ==
  \A s \in Scanners :
    (mounted[s] /\ Len(calls) = 1 /\ calls[1].s = s /\ calls[1].cb = "onResult"
       /\ calls[1].text \in ScanTexts)
      => /\ ~IsRsvp(calls[1].text)
         /\ Parses(calls[1].text) => ui[s].status = << "X Invalid RSVP QR code" >>
         /\ ~Parses(calls[1].text) => ui[s].status = << "X Not an RSVP QR code" >>

\* C9: a busy flag that is set is cleared again (while the component is
\* mounted), and the calls that await the store all come to their end, with
\* the flag cleared.
C9_BusyCleared ==
  /\ ui["s1"].isProcessing ~> (~ui["s1"].isProcessing \/ ~mounted["s1"])
  /\ (Awaiting("s1") > 0) ~> (Awaiting("s1") = 0 /\ (mounted["s1"] => ~ui["s1"].isProcessing))

\* C9's case: a check-in whose store call failed is over and busy is cleared.
C9_Witness ==
  /\ calls = << Call("s1", "onError", NoText, "unavailable") >>
  /\ mounted["s1"] /\ ~ui["s1"].isProcessing /\ Awaiting("s1") = 0

RECURSIVE CountIn(_, _)
CountIn(S, bag) ==
  IF S = {} THEN 0
  ELSE LET x == CHOOSE x \in S : TRUE IN CopiesIn(x, bag) + CountIn(S \ {x}, bag)

\* The sessions of a bag that are decoding.
ActiveCount(bag) == CountIn({ r \in BagToSet(bag) : r.st = "active" }, bag)

\* C10 (as claimed): no decode callback and no step of a check-in changes the
\* sessions, controlsRef or running, whatever its outcome; a step that reports
\* a store fault leaves the store as it was (a step that changes the store
\* shows a success); and a running loop ends only in stop() or in the teardown:
\* nothing else clears running once it is set, and nothing else ends a session
\* that decodes.
C10_OnlyStopEndsLoop ==
  [][/\ (sess'["s1"] # sess["s1"] \/ ui'["s1"].running # ui["s1"].running
           \/ controlsRef'["s1"] # controlsRef["s1"])
          => \/ StartBegin("s1") \/ Stop("s1") \/ Teardown("s1")
             \/ \E r \in Sessions("s1") : StartResolve("s1", r)
             \/ \E r \in Sessions("s1"), name \in CameraErrors : StartFail("s1", r, name)
     /\ calls' = << Call("s1", "onError", NoText, "unavailable") >> => store' = store
     /\ (store' # store /\ mounted["s1"]) => IsSuccess(ui'["s1"].status)
     /\ (\/ ui["s1"].running /\ ~ui'["s1"].running
         \/ ActiveCount(sess'["s1"]) < ActiveCount(sess["s1"]))
          => (Stop("s1") \/ Teardown("s1"))
    ]_vars

\* C11 (as claimed): once the component is torn down, or while it shows
\* "Stopped" after stop(), none of its camera sessions is decoding.
C11_StopReleasesCamera ==
  \A s \in Scanners :
    (~mounted[s] \/ (~ui[s].running /\ ui[s].status = << "Stopped" >>))
      => ActiveCount(sess[s]) = 0

\* The loop of scanner s has been stopped: by the teardown, or by stop() whose
\* "Stopped" is still shown; and no camera session of s is left.
LoopStopped(s) ==
  /\ sess[s] = EmptyBag
  /\ ~mounted[s] \/ (~ui[s].running /\ ui[s].status = << "Stopped" >>)

\* C12 (as claimed): once the loop is stopped, a check-in that is still under
\* way changes neither the status nor the last-scan display, and does not call
\* onResult; only a new start() changes what is shown.
C12_StoppedDiscardsResult ==
  [][\A s \in Scanners :
       (LoopStopped(s) /\ Awaiting(s) > 0)
         => \/ StartBegin(s)
            \/ /\ ui'[s].status = ui[s].status
               /\ ui'[s].lastScanResult = ui[s].lastScanResult
               /\ \A i \in 1..Len(calls') : ~(calls'[i].s = s /\ calls'[i].cb = "onResult")
    ]_vars

\* C13 (as claimed): when the status reset that a check-in scheduled comes due
\* while the loop is running, the status becomes the hint.
C13_StatusResetWhenRunning ==
  [][\A c \in InFlight("s1") :
       (c.pc = "timer" /\ Settles("s1", c) /\ mounted["s1"] /\ ui["s1"].running)
         => ui'["s1"].status = Hint
    ]_vars

\* C14 (as claimed): the write of a registration leaves every record that
\* exists as it is.
C14_CreateIfAbsent ==
  [][(gen.pc = "setDoc" /\ gen'.pc # "setDoc")
       => \A tok \in DOMAIN store : store'[tok] = store[tok]
    ]_vars

\* C15 (as claimed): when start() has just reported a camera failure, the
\* component is not running, the status is the message of the cause, onError
\* was called once, and no session of the scanner decodes (no decode hit can
\* be processed).
C15_CameraFailureLeavesIdle ==
  \A s \in Scanners, name \in CameraErrors :
    (mounted[s] /\ calls = << Call(s, "onError", NoText, name) >>)
      => /\ ~ui[s].running
         /\ ui[s].status = CameraStatus(name)
         /\ ActiveCount(sess[s]) = 0

\* What the scanner makes of the payload text of a record: it parses to an
\* object with t = "rsvp" and the record's token, name, email and phone, and the
\* callback dispatches a check-in whose document id is the record's token.
RoundTrips(text, rec) ==
  LET v == JSONParse(text) IN
  /\ v.kind = "object"
  /\ Get(v, "t") = Str("rsvp")
  /\ Get(v, "token") = Str(rec.token)
  /\ Get(v, "name") = Str(rec.name)
  /\ Get(v, "email") = Str(rec.email)
  /\ Get(v, "phone") = Str(rec.phone)
  /\ Classify(text) = "checkin"
  /\ TokenOf(NewCall(v.ms, FALSE)) = rec.token

\* C16: the payload that handleSubmit encodes for the record it has just
\* written round-trips through the scanner's parser, and so does the code the
\* generator shows, which carries the token it shows.
C16_RoundTrip ==
  /\ gen.pc = "toDataURL"
       => /\ gen.record.token \in DOMAIN store
          /\ RoundTrips(Payload(gen.record), store[gen.record.token])
  /\ gen.qrUrl # NoText
       => /\ Classify(gen.qrUrl) = "checkin"
          /\ Get(JSONParse(gen.qrUrl), "token") = Str(gen.lastToken)

\* C16's case: Bob registered with token tokB, and the station that read the
\* code the generator shows has a check-in of tokB under way with Bob's fields.
C16_Witness ==
  /\ gen.qrUrl # NoText /\ gen.lastToken = "tokB"
  /\ "tokB" \in DOMAIN store /\ RoundTrips(gen.qrUrl, store["tokB"])
  /\ \E c \in InFlight("s1") :
       /\ c.pc = "getDoc" /\ TokenOf(c) = "tokB"
       /\ c.qrData = JSONParse(gen.qrUrl).ms
       /\ Get(JSONParse(gen.qrUrl), "name") = Str("Bob")

\* C17 (as claimed): a record becomes checked_in only from invited.
C17_OnlyInvitedChecksIn ==
  [][\A tok \in DOMAIN store :
       (store[tok].status # "checked_in" /\ store'[tok].status = "checked_in")
         => store[tok].status = "invited"
    ]_vars

\* C18: every write of a station to a record sets coming, status, checkedInAt
\* (a time of the clock) and checkedInBy, and leaves the token, name, email,
\* phone and createdAt of the record as they were, whatever the scanned payload
\* carries in its other members; no other record changes.
C18_CheckInFrame ==
  [][\A tok \in DOMAIN store :
       store'[tok] # store[tok]
         => /\ \E at \in 0..now :
                 store'[tok] = [store[tok] EXCEPT !.coming = TRUE, !.status = "checked_in",
                                                  !.checkedInAt = at, !.checkedInBy = "scanner"]
            /\ \A other \in DOMAIN store \ {tok} : store'[other] = store[other]
    ]_vars

\* C18's case: Bob's record, registered as not coming, has just been checked
\* in by a payload that carries Ana's name and coming = true: it is still Bob's.
C18_Witness ==
  /\ "tokA" \in DOMAIN store
  /\ store["tokA"] = [Record("tokA", Bob, TRUE, "checked_in", 0) EXCEPT
                        !.checkedInAt = store["tokA"].checkedInAt, !.checkedInBy = "scanner"]
  /\ Len(calls) = 1 /\ calls[1].cb = "onResult"
  /\ Get(JSONParse(calls[1].text), "name") = Str("Ana")
  /\ Get(JSONParse(calls[1].text), "token") = Str("tokA")

\* A record has a checkedInAt exactly if it is checked_in.
TimedIffCheckedIn(st) ==
  \A tok \in DOMAIN st : (st[tok].checkedInAt # NoTime) <=> (st[tok].status = "checked_in")

\* C19: in every state a record has a checkedInAt exactly if its status is
\* checked_in, and the record that the write of a registration leaves is
\* invited and has no checkedInAt.
C19_CheckedInAtIffCheckedIn ==
  /\ TimedIffCheckedIn(store)
  /\ [][/\ TimedIffCheckedIn(store')
        /\ (gen.pc = "setDoc" /\ gen'.pc = "toDataURL")
             => /\ store'[gen.record.token].status = "invited"
                /\ store'[gen.record.token].checkedInAt = NoTime
       ]_vars

\* C19's case: one record is checked in and has its time, and the record of
\* the registration after it is invited and has none.
C19_Witness ==
  /\ {"tokA", "tokB"} \subseteq DOMAIN store
  /\ store["tokA"].status = "checked_in" /\ store["tokA"].checkedInAt # NoTime
  /\ gen.lastToken = "tokB"
  /\ store["tokB"].status = "invited" /\ store["tokB"].checkedInAt = NoTime
  /\ store["tokB"].createdAt > store["tokA"].checkedInAt

Digits == << "0", "1", "2", "3", "4", "5", "6", "7", "8", "9" >>
Lower == << "a", "b", "c", "d", "e", "f", "g", "h", "i", "j", "k", "l", "m",
            "n", "o", "p", "q", "r", "s", "t", "u", "v", "w", "x", "y", "z" >>
Upper == << "A", "B", "C", "D", "E", "F", "G", "H", "I", "J", "K", "L", "M",
            "N", "O", "P", "Q", "R", "S", "T", "U", "V", "W", "X", "Y", "Z" >>

\* The character of remainder r: digits, then lower case, then upper case.
CharOf(r) ==
  IF r < 10 THEN Digits[r + 1] ELSE IF r < 36 THEN Lower[r - 9] ELSE Upper[r - 35]

\* C20: the token makeToken(len) returns has exactly len characters, the i-th
\* is the character of the i-th byte's remainder by 62 (0-9, a-z, A-Z in this
\* order), so each is one of the 62 alphanumeric characters and nothing stands
\* between them.
C20_MakeToken ==
  gen.mk.pc = "done"
    => /\ Len(gen.mk.out) = gen.mk.len
       /\ \A i \in 1..gen.mk.len :
            /\ gen.mk.bytes[i] \in 0..255
            /\ gen.mk.out[i] = CharOf(gen.mk.bytes[i] % 62)
            /\ \E r \in 0..61 : gen.mk.out[i] = CharOf(r)

\* C20's case: three bytes at the ends of the alphabet's ranges made a token.
C20_Witness ==
  /\ gen.mk.pc = "done" /\ gen.mk.len = 3
  /\ gen.mk.bytes = << 61, 62, 255 >>
  /\ gen.mk.out = << "Z", "0", "7" >>

\* The calls of onResult that report a check-in: their text has status checked_in.
ReportsCheckIn(call) ==
  /\ call.cb = "onResult"
  /\ Get(JSONParse(call.text), "status") = Str("checked_in")

\* C21 (as claimed): in every state in which a station shows "checked in
\* successfully" for a guest, a record of that guest is checked_in, and when
\* onResult has just been called with status checked_in for a token, the
\* record of the token is checked_in.
C21_SuccessAfterWrite ==
  \A s \in Scanners :
    /\ IsSuccess(ui[s].status)
         => \E tok \in DOMAIN store :
              store[tok].status = "checked_in" /\ store[tok].name = ui[s].status[2]
    /\ \A i \in 1..Len(calls) :
         (calls[i].s = s /\ ReportsCheckIn(calls[i]))
           => LET tok == Get(JSONParse(calls[i].text), "token").v IN
              tok \in DOMAIN store /\ store[tok].status = "checked_in"

\* C22: whenever the generator shows a QR code, it shows the token the code
\* carries and the store has a record of that token; and when setDoc settles,
\* either the record is in the store and toDataURL starts, or (the write
\* failed) the store, the QR code and the token shown are as they were, no
\* toDataURL starts, isGenerating is cleared and the failure is shown.
C22_StoredBeforeShown ==
  /\ [](gen.qrUrl # NoText
          => /\ Get(JSONParse(gen.qrUrl), "token") = Str(gen.lastToken)
             /\ gen.lastToken \in DOMAIN store)
  /\ [][(gen.pc = "setDoc" /\ gen'.pc # "setDoc")
          => \/ /\ gen'.pc = "toDataURL"
                /\ gen.record.token \in DOMAIN store'
                /\ store'[gen.record.token] = [gen.record EXCEPT !.createdAt = now]
             \/ /\ gen'.pc = "idle" /\ ~gen'.isGenerating
                /\ store' = store
                /\ gen'.qrUrl = gen.qrUrl /\ gen'.lastToken = gen.lastToken
                /\ gen'.message = GenFailed.message
       ]_vars

\* C22's case: the code of tokB is shown, tokB has the only record, and a
\* registration after it has failed: the code and the token are still shown.
C22_Witness ==
  /\ gen.qrUrl # NoText /\ gen.lastToken = "tokB"
  /\ DOMAIN store = {"tokB"}
  /\ gen.pc = "idle" /\ ~gen.isGenerating
  /\ gen.message = GenFailed.message

\* C23 (as claimed): a scanner has at most one camera session that decodes.
C23_OneActiveSession == \A s \in Scanners : ActiveCount(sess[s]) <= 1

====
